---- MODULE Spec2Model ----
(***************************************************************************)
(* A model of dashboard_epl.py: one Streamlit script that loads a CSV of   *)
(* player statistics through a cached loader, filters it by club, position *)
(* and minutes, and renders KPIs, a goals-per-club chart, a top-10 ranking *)
(* and the filtered table.  A script run is a walk of pc through the       *)
(* script's sections; a widget interaction starts the next run.            *)
(*                                                                         *)
(* Data representation.  A DataFrame is [columns, dtypes, rows]; a row is  *)
(* a function from column names (and "index", the DataFrame index label)   *)
(* to values.  int64 cells are integers.  float64 cells are                *)
(* [nan, num] with num counted in hundredths.  Text cells of object        *)
(* columns that the loader may inspect are [null, s] with s a tuple of     *)
(* one-character strings; Club and Position cells are plain strings, which *)
(* stand for names that hold no '%'.                                       *)
(***************************************************************************)
EXTENDS Integers, Sequences, FiniteSets, TLC

VARIABLES
    file,                   \* the CSV on disk: [status, columns, rows]
    cache,                  \* st.cache_data store of load_data, keyed by path
    parses,                 \* number of times pd.read_csv parsed the file
    pc,                     \* the section of the script the run is at
    exc,                    \* the exception that ended the run, or "none"
    error_shown,            \* st.error was called (or replayed) in this run
    runs,                   \* number of script runs started in the session
    df,                     \* line 38
    widgets,                \* session widget state: "unset" or the three values
    filtered_df,            \* lines 79-97
    kpi,                    \* lines 102-111
    goals_by_club,          \* line 135
    metrics_to_rank,        \* line 165
    metric_selection,       \* line 167
    top_10_players,         \* line 174
    fig_bar_top,            \* line 175-176: the frame handed to px.bar
    table_shown             \* line 199: the frame handed to st.dataframe

vars == <<file, cache, parses, pc, exc, error_shown, runs, df, widgets,
          filtered_df, kpi, goals_by_club, metrics_to_rank, metric_selection,
          top_10_players, fig_bar_top, table_shown>>

(***************************************************************************)
(* Bounds of the model.                                                    *)
(***************************************************************************)
MaxRows == 2        \* rows of a drawn table (loader and filter inputs)
MaxViewRows == 2    \* rows of a drawn short view (aggregation inputs)
MaxMinutes == 1     \* drawn Minutes values are 0..MaxMinutes
MaxStat == 1        \* drawn Goals values are 0..MaxStat
MaxText == 2        \* characters of a drawn text cell
MaxRuns == 3        \* script runs in one session
MaxExtra == 1       \* rows a long view has beyond the ranking size

(***************************************************************************)
(* Program constants.                                                      *)
(***************************************************************************)
TopN == 10
DataPath == "epl_player_stats_24_25.csv"
DefaultClubs == {"Arsenal", "Manchester City", "Liverpool", "Manchester United"}
metrics_to_exclude ==
    {"Big Chances Missed", "Hit Woodwork", "Offsides", "Goals Conceded",
     "Own Goals", "Yellow Cards", "Red Cards", "Penalties Saved"}

None == [none |-> TRUE]

(***************************************************************************)
(* Strings.  Python compares and searches strings by their characters; the *)
(* model knows the characters of the column names it uses and the order of *)
(* the club and position names it uses.                                    *)
(***************************************************************************)
Chars(col) ==
    CASE col = "Club" -> <<"C","l","u","b">>
      [] col = "Position" -> <<"P","o","s","i","t","i","o","n">>
      [] col = "Minutes" -> <<"M","i","n","u","t","e","s">>
      [] col = "Goals" -> <<"G","o","a","l","s">>
      [] col = "Assists" -> <<"A","s","s","i","s","t","s">>
      [] col = "Passes%" -> <<"P","a","s","s","e","s","%">>
      [] col = "Shots" -> <<"S","h","o","t","s">>
      [] col = "Own Goals" -> <<"O","w","n"," ","G","o","a","l","s">>
      [] col = "Carries Ended with Goal" ->
            <<"C","a","r","r","i","e","s"," ","E","n","d","e","d"," ",
              "w","i","t","h"," ","G","o","a","l">>
      [] col = "xGoT Conceded" ->
            <<"x","G","o","T"," ","C","o","n","c","e","d","e","d">>

\* Python's `sub in s` on strings.
StrIn(sub, s) ==
    \E i \in 0..(Len(s) - Len(sub)) : SubSeq(s, i + 1, i + Len(sub)) = sub

\* Python's string order, on the names the model uses.
StrOrder ==
    <<"Arsenal", "Chelsea", "DF", "FW", "Liverpool", "MF",
      "Manchester City", "Manchester United">>

StrRank(s) == CHOOSE i \in 1..Len(StrOrder) : StrOrder[i] = s

(***************************************************************************)
(* Sequences.                                                              *)
(***************************************************************************)
RECURSIVE SeqSum(_)
SeqSum(s) == IF s = <<>> THEN 0 ELSE Head(s) + SeqSum(Tail(s))

RECURSIVE Mask(_, _)
\* Boolean-mask selection df[mask]: the rows i with keep[i], in order.
Mask(rows, keep) ==
    IF rows = <<>> THEN <<>>
    ELSE LET rest == Mask(Tail(rows), [i \in 1..(Len(rows) - 1) |-> keep[i + 1]])
         IN  IF keep[1] THEN <<Head(rows)>> \o rest ELSE rest

Reverse(s) == [i \in 1..Len(s) |-> s[Len(s) + 1 - i]]

(***************************************************************************)
(* load_data: pd.read_csv and the percentage clean-up.                     *)
(***************************************************************************)
Digits == {"0", "1", "2", "3", "4", "5", "6", "7", "8", "9"}

DigitValue(c) ==
    CASE c = "0" -> 0 [] c = "1" -> 1 [] c = "2" -> 2 [] c = "3" -> 3
      [] c = "4" -> 4 [] c = "5" -> 5 [] c = "6" -> 6 [] c = "7" -> 7
      [] c = "8" -> 8 [] c = "9" -> 9

\* The text is a number the parser accepts (the model's texts hold digits,
\* '%' and letters only, so a number is a non-empty run of digits).
IsNumberText(s) == s # <<>> /\ \A i \in 1..Len(s) : s[i] \in Digits

RECURSIVE ParseNumber(_)
ParseNumber(s) ==
    IF s = <<>> THEN 0
    ELSE 10 * ParseNumber(SubSeq(s, 1, Len(s) - 1)) + DigitValue(s[Len(s)])

\* Columns whose cells the model keeps as plain strings.
PlainText == {"Club", "Position"}
\* Columns whose raw cells the file gives as numbers already.
RawNumeric == {"Minutes", "Goals", "Assists"}

\* dtype pd.read_csv infers for a column of raw text cells (an empty cell
\* is a missing value).
InferTextDtype(cells) ==
    IF \A i \in 1..Len(cells) : cells[i] = <<>> \/ IsNumberText(cells[i])
    THEN IF \E i \in 1..Len(cells) : cells[i] = <<>> THEN "float64" ELSE "int64"
    ELSE "object"

ReadCell(dtype, raw) ==
    CASE dtype = "int64" -> ParseNumber(raw)
      [] dtype = "float64" ->
            IF raw = <<>> THEN [nan |-> TRUE, num |-> 0]
            ELSE [nan |-> FALSE, num |-> 100 * ParseNumber(raw)]
      [] dtype = "object" -> [null |-> raw = <<>>, s |-> raw]

\* pd.read_csv(file_path) on a readable file.
read_csv(f) ==
    LET n == Len(f.rows)
        dtypeOf(col) ==
            IF n = 0 THEN "object"
            ELSE IF col \in PlainText THEN "object"
            ELSE IF col \in RawNumeric THEN "int64"
            ELSE InferTextDtype([i \in 1..n |-> f.rows[i][col]])
        dtypes == [col \in {f.columns[k] : k \in 1..Len(f.columns)} |-> dtypeOf(col)]
    IN  [columns |-> f.columns,
         dtypes |-> dtypes,
         rows |-> [i \in 1..n |->
                     [col \in DOMAIN f.rows[i] |->
                        IF col = "index" \/ col \in PlainText \/ col \in RawNumeric
                        THEN f.rows[i][col]
                        ELSE ReadCell(dtypes[col], f.rows[i][col])]]]

\* df[col].str.contains('%', na=False), for one cell.
ContainsPct(col, v) ==
    IF col \in PlainText THEN FALSE
    ELSE ~v.null /\ \E i \in 1..Len(v.s) : v.s[i] = "%"

\* Line 30: the column is text and some cell of it holds a '%'.
IsPctColumn(d, col) ==
    /\ d.dtypes[col] = "object"
    /\ \E i \in 1..Len(d.rows) : ContainsPct(col, d.rows[i][col])

\* str.replace('%', '', regex=False), for one cell.
StripPct(s) == SelectSeq(s, LAMBDA c : c # "%")

\* astype(float) accepts the cell: a missing value, or text that is a number.
FloatOk(v) == v.null \/ IsNumberText(StripPct(v.s))

\* Line 31, for one cell: strip, parse, divide by 100 (num is in hundredths).
ConvertPct(v) ==
    IF v.null THEN [nan |-> TRUE, num |-> 0]
    ELSE [nan |-> FALSE, num |-> ParseNumber(StripPct(v.s))]

\* The columns line 30 selects.
PctColumns(d) ==
    {col \in {d.columns[k] : k \in 1..Len(d.columns)} : IsPctColumn(d, col)}

\* Lines 29-31: every selected column converted.
CleanPct(d) ==
    [columns |-> d.columns,
     dtypes |-> [col \in DOMAIN d.dtypes |->
                   IF col \in PctColumns(d) THEN "float64" ELSE d.dtypes[col]],
     rows |-> [i \in 1..Len(d.rows) |->
                 [col \in DOMAIN d.rows[i] |->
                    IF col \in PctColumns(d) THEN ConvertPct(d.rows[i][col])
                    ELSE d.rows[i][col]]]]

\* Lines 29-31 raise ValueError: a selected column holds text astype(float)
\* rejects.
CleanRaises(d) ==
    \E col \in PctColumns(d) : \E i \in 1..Len(d.rows) : ~FloatOk(d.rows[i][col])

\* The body of load_data (lines 26-35): what the call does when it runs.
\* read_csv raises FileNotFoundError on a missing path, which line 33
\* catches, and PermissionError on an unreadable one, which nothing catches.
load_data(f) ==
    CASE f.status = "missing" ->
            [kind |-> "return", value |-> None, st_error |-> TRUE, parsed |-> FALSE,
             exc |-> "none"]
      [] f.status = "unreadable" ->
            [kind |-> "raise", value |-> None, st_error |-> FALSE, parsed |-> FALSE,
             exc |-> "PermissionError"]
      [] f.status = "ok" ->
            IF CleanRaises(read_csv(f))
            THEN [kind |-> "raise", value |-> None, st_error |-> FALSE,
                  parsed |-> TRUE, exc |-> "ValueError"]
            ELSE [kind |-> "return", value |-> CleanPct(read_csv(f)),
                  st_error |-> FALSE, parsed |-> TRUE, exc |-> "none"]

NotCached == [cached |-> FALSE]

\* Everything a run computes after the load, before it is computed.
NoOutputs ==
    /\ filtered_df = None
    /\ kpi = None
    /\ goals_by_club = None
    /\ metrics_to_rank = None
    /\ metric_selection = None
    /\ top_10_players = None
    /\ fig_bar_top = None
    /\ table_shown = None

\* Line 38 under @st.cache_data (line 20): a hit returns the stored value and
\* replays the st.error the stored call made; a miss runs the body and stores
\* what it returns; an exception stores nothing and ends the run.
LoadData ==
    /\ pc = "load"
    /\ IF cache[DataPath] # NotCached
       THEN /\ df' = cache[DataPath].value
            /\ error_shown' = cache[DataPath].st_error
            /\ pc' = "check"
            /\ UNCHANGED <<cache, parses, exc>>
       ELSE LET r == load_data(file)
            IN  /\ parses' = IF r.parsed THEN parses + 1 ELSE parses
                /\ IF r.kind = "return"
                   THEN /\ cache' = [cache EXCEPT ![DataPath] =
                                       [cached |-> TRUE, value |-> r.value,
                                        st_error |-> r.st_error]]
                        /\ df' = r.value
                        /\ error_shown' = r.st_error
                        /\ pc' = "check"
                        /\ exc' = exc
                   ELSE /\ exc' = r.exc
                        /\ pc' = "exception"
                        /\ UNCHANGED <<cache, df, error_shown>>
    /\ UNCHANGED <<file, runs, widgets, filtered_df, kpi, goals_by_club,
                   metrics_to_rank, metric_selection, top_10_players,
                   fig_bar_top, table_shown>>

\* Lines 40-41: st.stop() ends the run when the load returned None.
CheckLoaded ==
    /\ pc = "check"
    /\ pc' = IF df = None THEN "stopped" ELSE "sidebar"
    /\ UNCHANGED <<file, cache, parses, exc, error_shown, runs, df, widgets,
                   filtered_df, kpi, goals_by_club, metrics_to_rank,
                   metric_selection, top_10_players, fig_bar_top, table_shown>>

(***************************************************************************)
(* The sidebar widgets (lines 49-67).                                      *)
(***************************************************************************)
Unset == [unset |-> TRUE]

Column(d, col) == [i \in 1..Len(d.rows) |-> d.rows[i][col]]

Unique(d, col) == {d.rows[i][col] : i \in 1..Len(d.rows)}

\* Line 61: the slider's ends.
min_minutes(d) ==
    CHOOSE m \in Unique(d, "Minutes") : \A x \in Unique(d, "Minutes") : m <= x
max_minutes(d) ==
    CHOOSE m \in Unique(d, "Minutes") : \A x \in Unique(d, "Minutes") : m >= x

\* The values the three widgets can hold for table d: any set of the club
\* options, 'All' or one position option, and a range inside the slider.
WidgetValues(d) ==
    [selected_clubs : SUBSET Unique(d, "Club"),
     selected_position : {"All"} \cup Unique(d, "Position"),
     selected_minutes_range :
        {r \in (min_minutes(d)..max_minutes(d)) \X (min_minutes(d)..max_minutes(d)) :
            r[1] <= r[2]}]

\* The values the widgets hold when first built: the defaults of lines
\* 53, 58 and 66.
WidgetDefaults(d) ==
    [selected_clubs |-> DefaultClubs,
     selected_position |-> "All",
     selected_minutes_range |-> <<min_minutes(d), max_minutes(d)>>]

\* Lines 49-67.  st.multiselect raises StreamlitAPIException when a default
\* is not among the options (which is also what an empty table does, before
\* line 61 is reached); otherwise a widget keeps the value the user gave it,
\* or takes its default the first time it is built.
Sidebar ==
    /\ pc = "sidebar"
    /\ IF ~(DefaultClubs \subseteq Unique(df, "Club"))
       THEN /\ pc' = "exception"
            /\ exc' = "StreamlitAPIException"
            /\ UNCHANGED widgets
       ELSE /\ pc' = "filter"
            /\ widgets' = IF widgets = Unset THEN WidgetDefaults(df) ELSE widgets
            /\ UNCHANGED exc
    /\ UNCHANGED <<file, cache, parses, error_shown, runs, df, filtered_df, kpi,
                   goals_by_club, metrics_to_rank, metric_selection,
                   top_10_players, fig_bar_top, table_shown>>

(***************************************************************************)
(* The filter (lines 79-97).                                               *)
(***************************************************************************)
WithRows(d, rows) == [columns |-> d.columns, dtypes |-> d.dtypes, rows |-> rows]

\* Line 86: pd.DataFrame(columns=df.columns).
EmptyFrame(d) ==
    [columns |-> d.columns, dtypes |-> [col \in DOMAIN d.dtypes |-> "object"],
     rows |-> <<>>]

\* Mutant: an empty club selection read as "every club".
ByClubEmptyMeansAll(d, clubs) ==
    IF clubs # {}
    THEN WithRows(d, Mask(d.rows, [i \in 1..Len(d.rows) |-> d.rows[i]["Club"] \in clubs]))
    ELSE d

\* Lines 82-86.
ByClub(d, clubs) ==
    IF clubs # {}
    THEN WithRows(d, Mask(d.rows, [i \in 1..Len(d.rows) |-> d.rows[i]["Club"] \in clubs]))
    ELSE EmptyFrame(d)

\* Lines 89-90.
ByPosition(d, position) ==
    IF position # "All"
    THEN WithRows(d, Mask(d.rows, [i \in 1..Len(d.rows) |->
                                      d.rows[i]["Position"] = position]))
    ELSE d

\* Mutant: the upper end of the minutes range excluded.
ByMinutesExclusive(d, range) ==
    IF d.rows # <<>>
    THEN WithRows(d, Mask(d.rows, [i \in 1..Len(d.rows) |->
                                      /\ d.rows[i]["Minutes"] >= range[1]
                                      /\ d.rows[i]["Minutes"] < range[2]]))
    ELSE d

\* Lines 93-97.
ByMinutes(d, range) ==
    IF d.rows # <<>>
    THEN WithRows(d, Mask(d.rows, [i \in 1..Len(d.rows) |->
                                      /\ d.rows[i]["Minutes"] >= range[1]
                                      /\ d.rows[i]["Minutes"] <= range[2]]))
    ELSE d

\* Lines 79-97: the three steps on a copy of df.
Filtered(d, w) ==
    ByMinutes(ByPosition(ByClub(d, w.selected_clubs), w.selected_position),
              w.selected_minutes_range)

\* Mutant: the filter applied to df itself instead of a copy.
ApplyFiltersInPlace ==
    /\ pc = "filter"
    /\ filtered_df' = Filtered(df, widgets)
    /\ df' = Filtered(df, widgets)
    /\ pc' = "kpi"
    /\ UNCHANGED <<file, cache, parses, exc, error_shown, runs, widgets, kpi,
                   goals_by_club, metrics_to_rank, metric_selection,
                   top_10_players, fig_bar_top, table_shown>>

ApplyFilters ==
    /\ pc = "filter"
    /\ filtered_df' = Filtered(df, widgets)
    /\ pc' = "kpi"
    /\ UNCHANGED <<file, cache, parses, exc, error_shown, runs, df, widgets, kpi,
                   goals_by_club, metrics_to_rank, metric_selection,
                   top_10_players, fig_bar_top, table_shown>>

(***************************************************************************)
(* The KPIs (lines 102-111).                                               *)
(***************************************************************************)
\* round() of a / b to an integer, ties to even (a >= 0, b > 0).
RoundDiv(a, b) ==
    LET q == a \div b
        r == a % b
    IN  IF 2 * r < b THEN q
        ELSE IF 2 * r > b THEN q + 1
        ELSE IF q % 2 = 0 THEN q ELSE q + 1

\* Mutant: the goals total taken from the Assists column.
MetricsGoalsFromAssists(v) ==
    IF v.rows # <<>>
    THEN [total_players |-> Len(v.rows),
          total_goals |-> SeqSum(Column(v, "Assists")),
          avg_assists |-> RoundDiv(100 * SeqSum(Column(v, "Assists")), Len(v.rows)),
          avg_minutes |-> RoundDiv(SeqSum(Column(v, "Minutes")), Len(v.rows))]
    ELSE [total_players |-> 0, total_goals |-> 0, avg_assists |-> 0, avg_minutes |-> 0]

\* avg_assists is kept in hundredths: round(mean, 2) * 100.
Metrics(v) ==
    IF v.rows # <<>>
    THEN [total_players |-> Len(v.rows),
          total_goals |-> SeqSum(Column(v, "Goals")),
          avg_assists |-> RoundDiv(100 * SeqSum(Column(v, "Assists")), Len(v.rows)),
          avg_minutes |-> RoundDiv(SeqSum(Column(v, "Minutes")), Len(v.rows))]
    ELSE [total_players |-> 0, total_goals |-> 0, avg_assists |-> 0, avg_minutes |-> 0]

KPI ==
    /\ pc = "kpi"
    /\ kpi' = Metrics(filtered_df)
    /\ pc' = "tab1"
    /\ UNCHANGED <<file, cache, parses, exc, error_shown, runs, df, widgets,
                   filtered_df, goals_by_club, metrics_to_rank, metric_selection,
                   top_10_players, fig_bar_top, table_shown>>

(***************************************************************************)
(* Sorting.  A sort works on items [k, nan, v]: the key, whether the key   *)
(* is NaN, and the row (or group) that carries it.                         *)
(***************************************************************************)
RECURSIVE InsertAsc(_, _)
\* x placed behind every item whose key is <= the key of x.
InsertAsc(x, s) ==
    IF s = <<>> THEN <<x>>
    ELSE IF Head(s).k <= x.k THEN <<Head(s)>> \o InsertAsc(x, Tail(s))
    ELSE <<x>> \o s

RECURSIVE StableAsc(_)
\* Ascending by key, equal keys in input order.
StableAsc(s) ==
    IF s = <<>> THEN <<>>
    ELSE InsertAsc(s[Len(s)], StableAsc(SubSeq(s, 1, Len(s) - 1)))

\* Descending by key, equal keys in input order (nargsort reverses the input,
\* sorts ascending and reverses the result; nlargest sorts the negated keys).
StableDesc(s) == Reverse(StableAsc(Reverse(s)))

NotNan(s) == SelectSeq(s, LAMBDA x : ~x.nan)
Nans(s) == SelectSeq(s, LAMBDA x : x.nan)

\* The keys that two or more items of s carry.
TiedKeys(s) ==
    {s[i].k : i \in {j \in 1..Len(s) : \E h \in 1..Len(s) : h # j /\ s[h].k = s[j].k}}

\* s (sorted by key) with the run of every key in K turned round.
RevRuns(s, K) ==
    [i \in 1..Len(s) |->
        IF s[i].k \in K
        THEN LET run == {j \in 1..Len(s) : s[j].k = s[i].k}
                 lo == CHOOSE j \in run : \A h \in run : j <= h
                 hi == CHOOSE j \in run : \A h \in run : j >= h
             IN  s[lo + hi - i]
        ELSE s[i]]

\* sort_values(ascending=...) with the default kind='quicksort', which is not
\* a stable sort: the result is ordered by key with NaN keys last, and the
\* order of items with equal keys is not determined.  The outcomes kept are
\* the stable order and every order that turns round the runs of some of the
\* tied keys.
sort_values(s, ascending) ==
    LET base == IF ascending THEN StableAsc(NotNan(s)) ELSE StableDesc(NotNan(s))
    IN  {RevRuns(base, K) \o Nans(s) : K \in SUBSET TiedKeys(base)}

Take(s, n) == SubSeq(s, 1, IF n < Len(s) THEN n ELSE Len(s))

\* The sort items of a frame's rows for column col.
Keyed(d, rows, col) ==
    [i \in 1..Len(rows) |->
        IF d.dtypes[col] = "float64"
        THEN [k |-> rows[i][col].num, nan |-> rows[i][col].nan, v |-> rows[i]]
        ELSE [k |-> rows[i][col], nan |-> FALSE, v |-> rows[i]]]

Values(s) == [i \in 1..Len(s) |-> s[i].v]

(***************************************************************************)
(* Tab 1: goals per club (lines 130-136).                                  *)
(***************************************************************************)
RECURSIVE SortedNames(_)
\* sorted(S) for a set of names.
SortedNames(S) ==
    IF S = {} THEN <<>>
    ELSE LET m == CHOOSE x \in S : \A y \in S : StrRank(x) <= StrRank(y)
         IN  <<m>> \o SortedNames(S \ {m})

\* groupby('Club')['Goals'].sum(): one item per club, in sorted club order
\* (groupby sorts the group keys), keyed by the club's sum.
GroupSums(v) ==
    LET keys == SortedNames(Unique(v, "Club"))
    IN  [g \in 1..Len(keys) |->
            [k |-> SeqSum(Column(
                      WithRows(v, SelectSeq(v.rows, LAMBDA r : r["Club"] = keys[g])),
                      "Goals")),
             nan |-> FALSE,
             v |-> keys[g]]]

\* Mutant: the sums sorted ascending.
GoalsByClubAscending(v) ==
    {[series |-> [i \in 1..Len(out) |-> [Club |-> out[i].v, Goals |-> out[i].k]]] :
        out \in sort_values(GroupSums(v), TRUE)}

\* Line 135: the outcomes of .sort_values(ascending=False) on the sums, each a
\* Series given as its (Club, Goals) entries in order.
GoalsByClub(v) ==
    {[series |-> [i \in 1..Len(out) |-> [Club |-> out[i].v, Goals |-> out[i].k]]] :
        out \in sort_values(GroupSums(v), FALSE)}

Tab1 ==
    /\ pc = "tab1"
    /\ IF filtered_df.rows = <<>>
       THEN UNCHANGED goals_by_club
       ELSE goals_by_club' \in GoalsByClub(filtered_df)
    /\ pc' = "tab2"
    /\ UNCHANGED <<file, cache, parses, exc, error_shown, runs, df, widgets,
                   filtered_df, kpi, metrics_to_rank, metric_selection,
                   top_10_players, fig_bar_top, table_shown>>

(***************************************************************************)
(* Tab 2: the ranking (lines 158-176).                                     *)
(***************************************************************************)
\* Line 162.
numeric_cols(d) == SelectSeq(d.columns, LAMBDA c : d.dtypes[c] \in {"int64", "float64"})

\* Mutant: the 'xGoT' name test left out.
RankableWithoutXGoT(col) ==
    /\ col \notin metrics_to_exclude
    /\ ~StrIn(<<"E","n","d","e","d">>, Chars(col))

\* The condition of line 165.
Rankable(col) ==
    /\ col \notin metrics_to_exclude
    /\ ~StrIn(<<"E","n","d","e","d">>, Chars(col))
    /\ ~StrIn(<<"x","G","o","T">>, Chars(col))

\* Line 165.
RankableMetrics(d) == SelectSeq(numeric_cols(d), Rankable)

\* Mutant: keep='last', the later of tied rows picked first.
nlargestKeepLast(v, n, col) ==
    LET items == Keyed(v, v.rows, col)
    IN  {WithRows(v, Values(Take(Reverse(StableAsc(NotNan(items))) \o Nans(items), n)))}

\* DataFrame.nlargest(n, col), keep='first'.  With n >= len the column is
\* ordered by sort_values(ascending=False) and cut to n; otherwise the n
\* largest are chosen by a stable sort of the non-NaN keys, NaN rows behind.
nlargest(v, n, col) ==
    LET items == Keyed(v, v.rows, col)
    IN  IF n >= Len(items)
        THEN {WithRows(v, Values(Take(out, n))) : out \in sort_values(items, FALSE)}
        ELSE {WithRows(v, Values(Take(StableDesc(NotNan(items)) \o Nans(items), n)))}

\* Line 176: the outcomes of top.sort_values(col, ascending=True).
SortedAscending(top, col) ==
    {WithRows(top, Values(out)) : out \in sort_values(Keyed(top, top.rows, col), TRUE)}

\* Lines 158-176.  The selectbox returns one of its options, or None when it
\* has none.
Tab2 ==
    /\ pc = "tab2"
    /\ IF filtered_df.rows = <<>>
       THEN UNCHANGED <<metrics_to_rank, metric_selection, top_10_players, fig_bar_top>>
       ELSE /\ metrics_to_rank' = [list |-> RankableMetrics(df)]
            /\ IF RankableMetrics(df) = <<>>
               THEN UNCHANGED <<metric_selection, top_10_players, fig_bar_top>>
               ELSE \E m \in {RankableMetrics(df)[i] : i \in 1..Len(RankableMetrics(df))} :
                      /\ metric_selection' = [option |-> m]
                      /\ \E top \in nlargest(filtered_df, TopN, m) :
                           /\ top_10_players' = top
                           /\ fig_bar_top' \in SortedAscending(top, m)
    /\ pc' = "tab3"
    /\ UNCHANGED <<file, cache, parses, exc, error_shown, runs, df, widgets,
                   filtered_df, kpi, goals_by_club, table_shown>>

(***************************************************************************)
(* Tab 3: the filtered table (lines 196-200).                              *)
(***************************************************************************)
Tab3 ==
    /\ pc = "tab3"
    /\ table_shown' = IF filtered_df.rows = <<>> THEN table_shown ELSE filtered_df
    /\ pc' = "done"
    /\ UNCHANGED <<file, cache, parses, exc, error_shown, runs, df, widgets,
                   filtered_df, kpi, goals_by_club, metrics_to_rank,
                   metric_selection, top_10_players, fig_bar_top>>

(***************************************************************************)
(* The next run.  Streamlit runs the script again from the top when the    *)
(* user changes a widget (or asks for a rerun); the widgets keep the       *)
(* values the user gave them, and the cache outlives the run.              *)
(***************************************************************************)
Rerun ==
    /\ pc \in {"done", "stopped", "exception"}
    /\ runs < MaxRuns
    /\ runs' = runs + 1
    /\ widgets' \in IF widgets = Unset THEN {Unset}
                    ELSE WidgetValues(cache[DataPath].value)
    /\ pc' = "load"
    /\ exc' = "none"
    /\ error_shown' = FALSE
    /\ df' = None
    /\ filtered_df' = None
    /\ kpi' = None
    /\ goals_by_club' = None
    /\ metrics_to_rank' = None
    /\ metric_selection' = None
    /\ top_10_players' = None
    /\ fig_bar_top' = None
    /\ table_shown' = None
    /\ UNCHANGED <<file, cache, parses>>

(***************************************************************************)
(* Files and initial states.                                               *)
(***************************************************************************)
BaseColumns == <<"Club", "Position", "Minutes", "Goals", "Assists", "Passes%">>

RawRow(i, club, position, minutes, goals, assists, passes) ==
    [index |-> i, Club |-> club, Position |-> position, Minutes |-> minutes,
     Goals |-> goals, Assists |-> assists] @@ ("Passes%" :> passes)

CsvFile(rows) == [status |-> "ok", columns |-> BaseColumns, rows |-> rows]
MissingFile == [status |-> "missing", columns |-> <<>>, rows |-> <<>>]
UnreadableFile == [status |-> "unreadable", columns |-> <<>>, rows |-> <<>>]

Pct45 == <<"4", "5", "%">>

\* A squad with every default club of line 53, whose Passes% cells follow
\* the pattern p (a sequence of four raw cells).
Squad(p) ==
    <<RawRow(0, "Liverpool", "FW", 1, 1, 0, p[1]),
      RawRow(1, "Arsenal", "MF", 0, 1, 1, p[2]),
      RawRow(2, "Manchester United", "FW", 1, 0, 1, p[3]),
      RawRow(3, "Manchester City", "MF", 0, 2, 0, p[4]),
      RawRow(4, "Arsenal", "FW", 2, 0, 1, p[1])>>

\* A table without the default clubs.
SmallSquad ==
    <<RawRow(0, "Chelsea", "FW", 1, 1, 0, Pct45),
      RawRow(1, "Arsenal", "MF", 0, 0, 1, Pct45)>>

PctPatterns ==
    {<<Pct45, <<"5", "%">>, Pct45, <<"4", "%">>>>,      \* every cell a percentage
     <<Pct45, <<"5">>, Pct45, <<"4", "%">>>>,           \* one cell lacks the '%'
     <<Pct45, <<"x">>, Pct45, <<"4", "%">>>>,           \* one cell is other text
     <<<<"x">>, <<"x", "5">>, <<"x">>, <<"x">>>>,       \* text without any '%'
     <<<<"4">>, <<"5">>, <<"4", "5">>, <<"5">>>>}       \* numbers

SessionFiles ==
    {CsvFile(Squad(p)) : p \in PctPatterns}
        \cup {CsvFile(SmallSquad), CsvFile(<<>>), MissingFile, UnreadableFile}

\* The session starts with nothing cached and nothing run.
Fresh ==
    /\ cache = [p \in {DataPath} |-> NotCached]
    /\ parses = 0
    /\ pc = "load"
    /\ exc = "none"
    /\ error_shown = FALSE
    /\ runs = 1
    /\ df = None
    /\ widgets = Unset
    /\ NoOutputs

Init ==
    /\ file \in SessionFiles
    /\ Fresh

Next ==
    \/ LoadData
    \/ CheckLoaded
    \/ Sidebar
    \/ ApplyFilters
    \/ KPI
    \/ Tab1
    \/ Tab2
    \/ Tab3
    \/ Rerun

Spec == Init /\ [][Next]_vars

(***************************************************************************)
(* The loader on drawn files: the Passes% cells are every text of up to    *)
(* MaxText characters over a small alphabet.                               *)
(***************************************************************************)
Alphabet == {"4", "5", "%", "x"}

Texts == UNION {[1..n -> Alphabet] : n \in 0..MaxText}

LoadFiles ==
    {CsvFile([i \in 1..n |-> RawRow(i - 1, "Arsenal", "FW", 0, 0, 0, cells[i])]) :
        n \in 1..MaxRows, cells \in [1..MaxRows -> Texts]}
        \cup {MissingFile, UnreadableFile}

InitLoad ==
    /\ file \in LoadFiles
    /\ Fresh

NextLoad ==
    \/ LoadData
    \/ CheckLoaded

SpecLoad == InitLoad /\ [][NextLoad]_vars

(***************************************************************************)
(* The filter on drawn tables and criteria.  The state is the one a run    *)
(* has at line 79: the table loaded and cached, the widgets read.  A run   *)
(* gets that far only if the table holds every default club of line 53, so *)
(* each drawn table ends with one row per default club; the criteria are   *)
(* the values the widgets can hold for the table.                          *)
(***************************************************************************)
Loaded(f) == load_data(f).value

AtSection(f, section) ==
    /\ file = f
    /\ cache = [p \in {DataPath} |->
                  [cached |-> TRUE, value |-> Loaded(f), st_error |-> FALSE]]
    /\ parses = 1
    /\ pc = section
    /\ exc = "none"
    /\ error_shown = FALSE
    /\ runs = 1
    /\ df = Loaded(f)

DrawnClubs == {"Arsenal", "Liverpool"}
DrawnPositions == {"FW", "MF"}

\* One row per default club, with index labels from k on.
DefaultRows(k) ==
    <<RawRow(k, "Manchester City", "MF", 1, 1, 0, Pct45),
      RawRow(k + 1, "Arsenal", "FW", 0, 0, 1, Pct45),
      RawRow(k + 2, "Manchester United", "MF", 0, 1, 1, Pct45),
      RawRow(k + 3, "Liverpool", "FW", 1, 0, 0, Pct45)>>

FilterFiles ==
    {CsvFile([i \in 1..n |->
                RawRow(i - 1, r[i][1], r[i][2], r[i][3], i % 2, 1, Pct45)]
             \o DefaultRows(n)) :
        n \in 0..MaxRows,
        r \in [1..MaxRows -> DrawnClubs \X DrawnPositions \X (0..MaxMinutes)]}

InitFilter ==
    /\ \E f \in FilterFiles : AtSection(f, "filter")
    /\ widgets \in WidgetValues(df)
    /\ NoOutputs

NextFilter == ApplyFilters

SpecFilter == InitFilter /\ [][NextFilter]_vars

(***************************************************************************)
(* The aggregations on drawn views.  The state is the one a run has at     *)
(* line 102: the table loaded (with every default club in it), and         *)
(* filtered either by widgets that keep every row or by an empty club      *)
(* selection.                                                              *)
(***************************************************************************)
\* Short views: every club and Goals value per drawn row, then the default
\* rows.
ShortViewFiles ==
    {CsvFile([i \in 1..n |->
                RawRow(i - 1, r[i][1], "FW", i - 1, r[i][2], i % 2, Pct45)]
             \o DefaultRows(n)) :
        n \in 0..MaxViewRows,
        r \in [1..MaxViewRows -> DrawnClubs \X (0..MaxStat)]}

DefaultClubSeq == <<"Liverpool", "Manchester United", "Arsenal", "Manchester City">>

\* Long views: more rows than the ranking keeps, Goals 0 or 1 per row.
LongViewFiles ==
    {CsvFile([i \in 1..n |->
                RawRow(i - 1, DefaultClubSeq[(i % 4) + 1], "FW", i - 1, g[i], 0, Pct45)]) :
        n \in (TopN + 1)..(TopN + MaxExtra),
        g \in [1..(TopN + MaxExtra) -> {0, 1}]}

\* Schema views: four rows, and each further column absent or holding
\* numbers, numbers with a missing value, or text.
ExtraColumns == <<"Shots", "Own Goals", "Carries Ended with Goal", "xGoT Conceded">>
ExtraKinds == {"absent", "int", "float", "text"}

ExtraCell(kind, i) ==
    CASE kind = "int" -> IF i % 2 = 1 THEN <<"1">> ELSE <<"2">>
      [] kind = "float" -> IF i = 2 THEN <<>> ELSE <<"3">>
      [] kind = "text" -> <<"x">>

SchemaFile(kinds) ==
    LET present == {k \in 1..Len(ExtraColumns) : kinds[k] # "absent"}
        base(i) == DefaultRows(0)[i]
    IN  [status |-> "ok",
         columns |-> BaseColumns \o
                        SelectSeq(ExtraColumns,
                                  LAMBDA c : \E k \in present : ExtraColumns[k] = c),
         rows |-> [i \in 1..4 |->
                     [col \in DOMAIN base(i) \cup {ExtraColumns[k] : k \in present} |->
                        IF col \in DOMAIN base(i) THEN base(i)[col]
                        ELSE ExtraCell(kinds[CHOOSE k \in present : ExtraColumns[k] = col],
                                       i)]]]

SchemaFiles == {SchemaFile(kinds) : kinds \in [1..Len(ExtraColumns) -> ExtraKinds]}

ViewFiles == ShortViewFiles \cup LongViewFiles \cup SchemaFiles

\* Widget values that keep every row of d, and the same with no club chosen.
KeepAll(d) ==
    [selected_clubs |-> Unique(d, "Club"),
     selected_position |-> "All",
     selected_minutes_range |-> <<min_minutes(d), max_minutes(d)>>]

KeepNone(d) == [KeepAll(d) EXCEPT !.selected_clubs = {}]

InitView ==
    /\ \E f \in ViewFiles : AtSection(f, "kpi")
    /\ widgets \in {KeepAll(df), KeepNone(df)}
    /\ filtered_df = Filtered(df, widgets)
    /\ kpi = None
    /\ goals_by_club = None
    /\ metrics_to_rank = None
    /\ metric_selection = None
    /\ top_10_players = None
    /\ fig_bar_top = None
    /\ table_shown = None

NextView ==
    \/ KPI
    \/ Tab1
    \/ Tab2
    \/ Tab3

SpecView == InitView /\ [][NextView]_vars

(***************************************************************************)
(* Properties.                                                             *)
(***************************************************************************)
AfterFilter == {"kpi", "tab1", "tab2", "tab3", "done"}

\* The rows of d that meet all three criteria of w, in table order.
Matching(d, w) ==
    SelectSeq(d.rows,
              LAMBDA r : /\ r["Club"] \in w.selected_clubs
                         /\ w.selected_position = "All"
                              \/ r["Position"] = w.selected_position
                         /\ w.selected_minutes_range[1] <= r["Minutes"]
                         /\ r["Minutes"] <= w.selected_minutes_range[2])

Passes(r, w, which) ==
    CASE which = "club" -> r["Club"] \in w.selected_clubs
      [] which = "position" ->
            w.selected_position = "All" \/ r["Position"] = w.selected_position
      [] which = "minutes" ->
            /\ w.selected_minutes_range[1] <= r["Minutes"]
            /\ r["Minutes"] <= w.selected_minutes_range[2]

\* C1: the filtered view is exactly the rows of the table that meet the club
\* criterion AND the position criterion AND the inclusive minutes range, in
\* table order (so skipping the minutes step on an empty intermediate result
\* changes nothing).
C1_FilterIsConjunction ==
    pc = "kpi" => filtered_df.rows = Matching(df, widgets)

\* A row that only the minutes range excludes, ahead of a row that is kept
\* under a position criterion.
C1_Witness ==
    /\ pc = "kpi"
    /\ widgets.selected_position # "All"
    /\ Passes(df.rows[1], widgets, "club")
    /\ Passes(df.rows[1], widgets, "position")
    /\ ~Passes(df.rows[1], widgets, "minutes")
    /\ filtered_df.rows = <<df.rows[2]>>
    /\ \E i \in 1..Len(df.rows) :
          /\ ~Passes(df.rows[i], widgets, "club")
          /\ Passes(df.rows[i], widgets, "position")
          /\ Passes(df.rows[i], widgets, "minutes")

\* C2: with no club selected the filtered view is empty, whatever the table,
\* the position selection and the minutes range.
C2_NoClubsNoRows ==
    (pc = "kpi" /\ widgets.selected_clubs = {}) => filtered_df.rows = <<>>

\* No club selected over a two-row table with position 'All' and a minutes
\* range that every row meets.
C2_Witness ==
    /\ pc = "kpi"
    /\ widgets.selected_clubs = {}
    /\ widgets.selected_position = "All"
    /\ Len(df.rows) > 4
    /\ \A i \in 1..Len(df.rows) : Passes(df.rows[i], widgets, "minutes")
    /\ filtered_df.rows = <<>>

\* The raw Passes% cells of the file, and the text among them.
RawCells == [i \in 1..Len(file.rows) |-> file.rows[i]["Passes%"]]
HasPercent(cell) == \E i \in 1..Len(cell) : cell[i] = "%"
IsTextColumn == \E i \in 1..Len(RawCells) : RawCells[i] # <<>> /\ ~IsNumberText(RawCells[i])
EveryTextHasPercent == \A i \in 1..Len(RawCells) : RawCells[i] = <<>> \/ HasPercent(RawCells[i])

\* C3: a text column is converted to fractions only if every non-null value
\* of it contains '%'; a mixed column is left as text, and loading it does
\* not fail.
C3_ConvertedOnlyIfEveryValueHasPercent ==
    (pc \in {"check", "exception"} /\ file.status = "ok" /\ IsTextColumn
        /\ ~EveryTextHasPercent)
    => /\ exc = "none"
       /\ df # None
       /\ df.dtypes["Passes%"] = "object"
       /\ \A i \in 1..Len(RawCells) : df.rows[i]["Passes%"].s = RawCells[i]

\* C4: when the path does not resolve to a readable file (missing or
\* unreadable) the load yields the error value instead of raising, the error
\* message is shown, and the run halts before any filter, aggregation or
\* rendering step.
C4_LoadFailureIsReportedAndHalts ==
    (file.status # "ok" /\ pc # "load")
    => /\ exc = "none"
       /\ df = None
       /\ error_shown
       /\ pc \in {"check", "stopped"}
       /\ NoOutputs

\* The independent sum of a column over a view: value times number of rows
\* that hold it.
RECURSIVE WeightedCount(_, _, _)
WeightedCount(v, col, vals) ==
    IF vals = {} THEN 0
    ELSE LET x == CHOOSE y \in vals : TRUE
         IN  x * Cardinality({i \in 1..Len(v.rows) : v.rows[i][col] = x})
                + WeightedCount(v, col, vals \ {x})

\* C5: on an empty view the four KPIs are 0; on a non-empty view the count is
\* the number of rows and the total is the sum of Goals over those rows.
C5_SummaryMetricsTotal ==
    (pc \in AfterFilter \ {"kpi"})
    => IF filtered_df.rows = <<>>
       THEN kpi = [total_players |-> 0, total_goals |-> 0, avg_assists |-> 0,
                   avg_minutes |-> 0]
       ELSE /\ kpi.total_players = Len(filtered_df.rows)
            /\ kpi.total_goals =
                 WeightedCount(filtered_df, "Goals", Unique(filtered_df, "Goals"))

\* The KPIs of an empty view over a table that has rows.
C5_Witness ==
    /\ pc = "tab1"
    /\ df.rows # <<>>
    /\ filtered_df.rows = <<>>
    /\ kpi.total_players = 0
    /\ kpi.avg_minutes = 0

\* The value a row holds in a numeric column, and whether it holds one.
HasValue(d, r, col) == d.dtypes[col] # "float64" \/ ~r[col].nan
ValueOf(d, r, col) == IF d.dtypes[col] = "float64" THEN r[col].num ELSE r[col]
RowSet(rows) == {rows[i] : i \in 1..Len(rows)}

\* What the ranking picks: min(TopN, |view|) distinct rows of the view; a
\* valued row left out is matched or beaten by every row picked; of rows tied
\* at the cut the earlier is picked.
TopNPicks(view, top, m) ==
    /\ Len(top.rows) = (IF TopN < Len(view.rows) THEN TopN ELSE Len(view.rows))
    /\ Cardinality(RowSet(top.rows)) = Len(top.rows)
    /\ RowSet(top.rows) \subseteq RowSet(view.rows)
    /\ \A r \in RowSet(top.rows), q \in RowSet(view.rows) \ RowSet(top.rows) :
          HasValue(view, q, m) =>
             /\ HasValue(view, r, m)
             /\ ValueOf(view, r, m) >= ValueOf(view, q, m)
             /\ ValueOf(view, r, m) = ValueOf(view, q, m) => r["index"] < q["index"]

\* The frame drawn holds the picked rows, valued rows in ascending order
\* of the metric and rows without a value behind them.
DrawnAscending(top, fig, m) ==
    /\ Len(fig.rows) = Len(top.rows)
    /\ RowSet(fig.rows) = RowSet(top.rows)
    /\ \A i, j \in 1..Len(fig.rows) :
          (i < j /\ HasValue(fig, fig.rows[j], m)) =>
             /\ HasValue(fig, fig.rows[i], m)
             /\ ValueOf(fig, fig.rows[i], m) <= ValueOf(fig, fig.rows[j], m)

\* Rows of the drawn frame that tie on the metric keep their table order.
TiesInRowOrder(fig, m) ==
    \A i, j \in 1..Len(fig.rows) :
       (/\ i < j
        /\ HasValue(fig, fig.rows[i], m)
        /\ HasValue(fig, fig.rows[j], m)
        /\ ValueOf(fig, fig.rows[i], m) = ValueOf(fig, fig.rows[j], m))
       => fig.rows[i]["index"] < fig.rows[j]["index"]

\* C6 as stated: the ranking returns min(n, |view|) rows that match or beat
\* every row left out, ties at the cut-off taken in row order, and the
\* returned sequence is ascending by the metric with tied rows in row order.
C6_TopNAscendingTiesInRowOrder ==
    fig_bar_top # None =>
       /\ TopNPicks(filtered_df, top_10_players, metric_selection.option)
       /\ DrawnAscending(top_10_players, fig_bar_top, metric_selection.option)
       /\ TiesInRowOrder(fig_bar_top, metric_selection.option)

\* C6 as amended: the same, with nothing said about the order of tied rows in
\* the returned sequence.
C6_TopNAscending ==
    fig_bar_top # None =>
       /\ TopNPicks(filtered_df, top_10_players, metric_selection.option)
       /\ DrawnAscending(top_10_players, fig_bar_top, metric_selection.option)

\* A view longer than the ranking, ranked by Goals, where a row picked and a
\* row left out tie at the cut-off and the rows picked hold both values.
C6_Witness ==
    /\ fig_bar_top # None
    /\ metric_selection.option = "Goals"
    /\ Len(filtered_df.rows) > TopN
    /\ Len(fig_bar_top.rows) = TopN
    /\ \E r \in RowSet(top_10_players.rows),
          q \in RowSet(filtered_df.rows) \ RowSet(top_10_players.rows) :
          r["Goals"] = q["Goals"]
    /\ fig_bar_top.rows[1]["Goals"] < fig_bar_top.rows[TopN]["Goals"]

\* The position in the view of the first row of a club.
FirstSeen(view, club) ==
    CHOOSE i \in 1..Len(view.rows) :
       /\ view.rows[i]["Club"] = club
       /\ \A j \in 1..(i - 1) : view.rows[j]["Club"] # club

ClubGoals(view, club) ==
    WeightedCount(WithRows(view, SelectSeq(view.rows, LAMBDA r : r["Club"] = club)),
                  "Goals", Unique(view, "Goals"))

\* One (club, sum) entry per club of the view, ordered by sum descending.
GroupSumDescending(view, series) ==
    /\ Len(series) = Cardinality(Unique(view, "Club"))
    /\ {series[i].Club : i \in 1..Len(series)} = Unique(view, "Club")
    /\ \A i \in 1..Len(series) : series[i].Goals = ClubGoals(view, series[i].Club)
    /\ \A i, j \in 1..Len(series) : i < j => series[i].Goals >= series[j].Goals

\* C7 as stated: one (club, sum) pair per club, ordered by sum descending,
\* clubs with equal sums in the order in which they are first met in the view.
C7_GroupSumTiesFirstSeen ==
    goals_by_club # None =>
       /\ GroupSumDescending(filtered_df, goals_by_club.series)
       /\ \A i, j \in 1..Len(goals_by_club.series) :
             (i < j /\ goals_by_club.series[i].Goals = goals_by_club.series[j].Goals)
             => FirstSeen(filtered_df, goals_by_club.series[i].Club)
                   < FirstSeen(filtered_df, goals_by_club.series[j].Club)

\* C7 as amended: one (club, sum) pair per club, ordered by sum descending.
C7_GroupSumDescending ==
    goals_by_club # None => GroupSumDescending(filtered_df, goals_by_club.series)

\* Four clubs, some with several rows; the club with the largest sum is not
\* the first met, and two clubs tie.
C7_Witness ==
    /\ goals_by_club # None
    /\ Len(goals_by_club.series) = 4
    /\ Len(filtered_df.rows) > 5
    /\ goals_by_club.series[1].Goals > goals_by_club.series[2].Goals
    /\ FirstSeen(filtered_df, goals_by_club.series[1].Club) > 1
    /\ goals_by_club.series[2].Goals = goals_by_club.series[3].Goals

\* C8: over the session the file is parsed at most once.
C8_ParsedAtMostOnce == parses <= 1

ColumnSet(d) == {d.columns[k] : k \in 1..Len(d.columns)}
IsNumeric(d, col) == d.dtypes[col] \in {"int64", "float64"}

\* C9: the rankable metrics hold no column of the exclusion list and no column
\* named with 'Ended' or 'xGoT', numeric or not, and hold every other numeric
\* column of the loaded table.
C9_RankableMetrics ==
    metrics_to_rank # None =>
       LET M == {metrics_to_rank.list[i] : i \in 1..Len(metrics_to_rank.list)}
       IN  /\ M \cap metrics_to_exclude = {}
           /\ "Carries Ended with Goal" \notin M
           /\ "xGoT Conceded" \notin M
           /\ \A col \in ColumnSet(df) :
                 (/\ IsNumeric(df, col)
                  /\ col \notin {"Own Goals", "Carries Ended with Goal", "xGoT Conceded"})
                 => col \in M
           /\ \A col \in M : col \in ColumnSet(df) /\ IsNumeric(df, col)

\* A table where an excluded column, an 'Ended' column and an 'xGoT' column
\* are all numeric, beside a numeric column that is ranked.
C9_Witness ==
    /\ metrics_to_rank # None
    /\ {"Shots", "Own Goals", "Carries Ended with Goal", "xGoT Conceded"}
          \subseteq ColumnSet(df)
    /\ df.dtypes["Own Goals"] = "int64"
    /\ df.dtypes["Carries Ended with Goal"] = "float64"
    /\ df.dtypes["xGoT Conceded"] = "int64"
    /\ \E i \in 1..Len(metrics_to_rank.list) : metrics_to_rank.list[i] = "Shots"

\* C10: whatever filters were applied in earlier runs, the table a run filters
\* is the table the load produced, so the view depends on the criteria alone.
C10_TableUnchangedByFilters ==
    pc \in AfterFilter =>
       /\ df = Loaded(file)
       /\ cache[DataPath].value = Loaded(file)
       /\ filtered_df = Filtered(Loaded(file), widgets)

\* The third run of a session, back on the criteria of the first run, has
\* drawn the view.
C10_Witness ==
    /\ runs >= 3
    /\ pc = "done"
    /\ widgets = WidgetDefaults(df)
    /\ table_shown # None
    /\ Len(table_shown.rows) = 5

====
